---- MODULE Spec2Model ----
(***************************************************************************)
(* Model of datasampler.DataSampler (src/datasampler/sampler.py) and of    *)
(* the Measurement value object (src/datasampler/measurement.py).          *)
(*                                                                         *)
(* A datetime is modelled as a whole number of seconds counted from the    *)
(* top of some hour (Measurement.__post_init__ drops the microseconds, so  *)
(* whole seconds are exact).  None is modelled as the empty tuple and a    *)
(* present optional value x as the one-element tuple <<x>>.                *)
(***************************************************************************)
EXTENDS Integers, Sequences, FiniteSets

\* ---------------------------------------------------------------------
\* Bounds of the model
\* ---------------------------------------------------------------------
MaxLen == 2
MaxLenInterval == 1
MaxValue == 2
FirstMinute == 58
LastMinute == 60
MaxSecond == 1

\* ---------------------------------------------------------------------
\* Program constants
\* ---------------------------------------------------------------------
SecondsPerMinute == 60
MinutesPerHour == 60
DefaultInterval == 5

None == << >>
Some(x) == <<x>>

\* class MeasType(Enum)
MeasType == {"SPO2", "HR", "TEMP"}

\* @dataclass Measurement
Measurement(time, type, val) ==
  [measurement_time |-> time, measurement_type |-> type, value |-> val]

\* datetime values offered as inputs: minutes FirstMinute..LastMinute of an
\* hour (minute 60 and later lie in the next hour), seconds 0..MaxSecond
Times == { m * SecondsPerMinute + s : m \in FirstMinute..LastMinute, s \in 0..MaxSecond }

\* the channels and the measurements offered as inputs
InputTypes == {"SPO2", "TEMP"}
Measurements == { Measurement(t, ty, v) : t \in Times, ty \in InputTypes, v \in 1..MaxValue }

\* start_of_sampling values offered as inputs
StartTimes == { t \in Times : t < LastMinute * SecondsPerMinute }

\* interval arguments offered to the constructor and to the sampling calls
PositiveIntervals == {1, 7}
NonPositiveIntervals == {-1, 0}
IntervalArgs == {None} \cup { Some(i) : i \in PositiveIntervals \cup NonPositiveIntervals }

\* ---------------------------------------------------------------------
\* datetime arithmetic
\* ---------------------------------------------------------------------
\* datetime.minute
minute(time) == (time \div SecondsPerMinute) % MinutesPerHour

\* timedelta(minutes=n), in seconds
timedelta(minutes) == minutes * SecondsPerMinute

\* time.replace(minute=minutes, second=0, microsecond=0)
replace_minute(time, minutes) ==
  time - (time % (SecondsPerMinute * MinutesPerHour)) + minutes * SecondsPerMinute

\* DataSampler.__get_interval_start
get_interval_start(time, interval) ==
  LET minutes == (minute(time) \div interval) * interval
  IN  replace_minute(time, minutes)

\* ---------------------------------------------------------------------
\* sorted(measurements, key=lambda m: m.measurement_time): a stable sort
\* ---------------------------------------------------------------------
RECURSIVE insert_sorted(_, _)
insert_sorted(s, m) ==
  IF s = << >> THEN <<m>>
  ELSE IF Head(s).measurement_time <= m.measurement_time
       THEN <<Head(s)>> \o insert_sorted(Tail(s), m)
       ELSE <<m>> \o s

RECURSIVE sorted(_)
sorted(s) ==
  IF s = << >> THEN << >>
  ELSE insert_sorted(sorted(SubSeq(s, 1, Len(s) - 1)), s[Len(s)])

\* a variant with an exclusive lower bound
keep_after(start_time, m) == m.measurement_time > start_time[1]

\* m.measurement_time >= start_time
keep_from(start_time, m) == m.measurement_time >= start_time[1]

\* a variant that filters without sorting first
filter_unsorted_measurements(measurements, start_time) ==
  LET Keep(m) == keep_from(start_time, m)
  IN  IF start_time # None
      THEN SelectSeq(measurements, Keep)
      ELSE measurements

\* DataSampler.__sort_and_filter_measurements
sort_and_filter_measurements(measurements, start_time) ==
  LET sorted_measurements == sorted(measurements)
      Keep(m) == keep_from(start_time, m)
  IN  IF start_time # None
      THEN SelectSeq(sorted_measurements, Keep)
      ELSE sorted_measurements

\* ---------------------------------------------------------------------
\* DataSampler.__group_measurements_by_type: a dict, i.e. the keys in
\* insertion order and the list of each key
\* ---------------------------------------------------------------------
RECURSIVE group_keys(_)
group_keys(measurements) ==
  IF measurements = << >> THEN << >>
  ELSE LET rest == group_keys(SubSeq(measurements, 1, Len(measurements) - 1))
           ty   == measurements[Len(measurements)].measurement_type
       IN  IF \E i \in 1..Len(rest) : rest[i] = ty THEN rest ELSE Append(rest, ty)

group_of(measurements, ty) ==
  LET IsTy(m) == m.measurement_type = ty
  IN  SelectSeq(measurements, IsTy)

\* ---------------------------------------------------------------------
\* DataSampler.__generate_intervals: the instants start_time,
\* start_time + interval, ... up to the last measurement
\* ---------------------------------------------------------------------
\* a variant that always starts at the interval start of the first measurement
generate_intervals_from_data(measurements, start_of_sampling, interval) ==
  IF measurements = << >> THEN {}
  ELSE LET sorted_measurements == sorted(measurements)
           start_time == get_interval_start(sorted_measurements[1].measurement_time,
                                            interval)
           end_time == sorted_measurements[Len(sorted_measurements)].measurement_time
       IN  { start_time + k * timedelta(interval) :
               k \in 0..((end_time - start_time) \div timedelta(interval)) }

generate_intervals(measurements, start_of_sampling, interval) ==
  IF measurements = << >> THEN {}
  ELSE LET sorted_measurements == sorted(measurements)
           start_time == IF start_of_sampling # None
                         THEN start_of_sampling[1]
                         ELSE get_interval_start(sorted_measurements[1].measurement_time,
                                                 interval)
           end_time == sorted_measurements[Len(sorted_measurements)].measurement_time
       IN  { start_time + k * timedelta(interval) :
               k \in 0..((end_time - start_time) \div timedelta(interval)) }

\* ---------------------------------------------------------------------
\* DataSampler.__sample_single_type
\* ---------------------------------------------------------------------
\* a variant without the exact-hit rule
exact_hit_never(measurement, intervals) == FALSE

\* if measurement.measurement_time in intervals
exact_hit(measurement, intervals) == measurement.measurement_time \in intervals

\* Measurement(current_interval_end, meas_type, last_measurement.value)
carry_forward(meas_type, current_interval_end, last_measurement) ==
  Measurement(current_interval_end, meas_type, last_measurement[1].value)

\* a variant that keeps the carried value pending after it is appended
after_emit_keep(last_measurement) == last_measurement

\* last_measurement = None, after the carried value is appended
after_emit(last_measurement) == None

\* a variant that keeps the earliest pending measurement
remember_first(last_measurement, measurement) ==
  IF last_measurement # None THEN last_measurement ELSE Some(measurement)

\* last_measurement = measurement, after the inner loop
remember(last_measurement, measurement) == Some(measurement)

\* the inner loop: while measurement.measurement_time > current_interval_end
RECURSIVE advance_interval_end(_, _, _, _, _, _)
advance_interval_end(meas_type, time, current_interval_end, last_measurement, sampled, interval) ==
  IF time > current_interval_end
  THEN advance_interval_end(
         meas_type, time,
         current_interval_end + timedelta(interval),
         IF last_measurement # None THEN after_emit(last_measurement) ELSE None,
         IF last_measurement # None
         THEN Append(sampled, carry_forward(meas_type, current_interval_end,
                                            last_measurement))
         ELSE sampled,
         interval)
  ELSE [current_interval_end |-> current_interval_end,
        last_measurement |-> last_measurement,
        sampled |-> sampled]

\* the outer loop: for measurement in measurements, from position k on,
\* and the final emission after it
RECURSIVE walk(_, _, _, _, _, _, _, _)
walk(meas_type, measurements, intervals, k, current_interval_end, last_measurement, sampled, interval) ==
  IF k > Len(measurements)
  THEN IF last_measurement # None
       THEN Append(sampled, carry_forward(meas_type, current_interval_end,
                                          last_measurement))
       ELSE sampled
  ELSE LET measurement == measurements[k]
       IN  IF exact_hit(measurement, intervals)
           THEN walk(meas_type, measurements, intervals, k + 1,
                     current_interval_end, None,
                     Append(sampled, Measurement(measurement.measurement_time,
                                                 meas_type, measurement.value)),
                     interval)
           ELSE LET a == advance_interval_end(meas_type,
                                              measurement.measurement_time,
                                              current_interval_end,
                                              last_measurement, sampled, interval)
                IN  walk(meas_type, measurements, intervals, k + 1,
                         a.current_interval_end,
                         remember(a.last_measurement, measurement), a.sampled,
                         interval)

\* a variant that does not align the first interval end
first_interval_end_unaligned(measurements, interval) ==
  measurements[1].measurement_time + timedelta(interval)

\* get_interval_start(measurements[0].measurement_time) + timedelta(minutes=interval)
first_interval_end(measurements, interval) ==
  get_interval_start(measurements[1].measurement_time, interval) + timedelta(interval)

sample_single_type(meas_type, measurements, intervals, interval) ==
  IF measurements = << >> THEN << >>
  ELSE walk(meas_type, measurements, intervals, 1,
            first_interval_end(measurements, interval), None, << >>, interval)

\* ---------------------------------------------------------------------
\* DataSampler.sample_measurements and sample_measurements_by_type, for
\* the value self.interval has once the override is applied
\* ---------------------------------------------------------------------
RECURSIVE extend_all(_, _, _, _)
extend_all(keys, sorted_measurements, intervals, interval) ==
  IF keys = << >> THEN << >>
  ELSE sample_single_type(Head(keys), group_of(sorted_measurements, Head(keys)),
                          intervals, interval)
       \o extend_all(Tail(keys), sorted_measurements, intervals, interval)

sample_flat(unsampled, start, interval, sort) ==
  LET sorted_measurements == sort_and_filter_measurements(unsampled, start)
      intervals == generate_intervals(sorted_measurements, start, interval)
      sampled_measurements ==
        extend_all(group_keys(sorted_measurements), sorted_measurements,
                   intervals, interval)
  IN  IF sort THEN sampled_measurements ELSE sampled_measurements

sample_by_type(unsampled, start, interval) ==
  LET sorted_measurements == sort_and_filter_measurements(unsampled, start)
      intervals == generate_intervals(sorted_measurements, start, interval)
      keys == group_keys(sorted_measurements)
  IN  [ ty \in { keys[i] : i \in 1..Len(keys) } |->
          sample_single_type(ty, group_of(sorted_measurements, ty), intervals, interval) ]

\* a variant in which a call without a usable override falls back to the default
apply_override_reset(current, arg) ==
  IF arg # None /\ arg[1] > 0 THEN arg[1] ELSE DefaultInterval

\* if interval is not None and interval > 0: self.interval = interval
apply_override(current, arg) ==
  IF arg # None /\ arg[1] > 0 THEN arg[1] ELSE current

\* ---------------------------------------------------------------------
\* State
\* ---------------------------------------------------------------------
VARIABLES
  unsampled_measurements,  \* the list handed to the calls
  start_of_sampling,       \* None or Some(datetime)
  constructed,             \* a DataSampler instance exists
  interval,                \* self.interval (0 while no instance exists)
  op,                      \* the last operation run
  interval_arg,            \* its interval argument
  to_sort,                 \* its to_sort argument
  raised,                  \* the exception it raised, or "none"
  returned                 \* what it returned

vars == <<unsampled_measurements, start_of_sampling, constructed, interval,
          op, interval_arg, to_sort, raised, returned>>

NoReturn == [kind |-> "none", list |-> << >>, dict |-> << >>]
ReturnList(l) == [kind |-> "list", list |-> l, dict |-> << >>]
ReturnDict(d) == [kind |-> "dict", list |-> << >>, dict |-> d]

RECURSIVE SeqsUpTo(_)
SeqsUpTo(n) ==
  IF n = 0 THEN { << >> }
  ELSE LET shorter == SeqsUpTo(n - 1)
       IN  shorter \cup { Append(s, m) : s \in { x \in shorter : Len(x) = n - 1 },
                                          m \in Measurements }

Init ==
  /\ unsampled_measurements \in SeqsUpTo(MaxLen)
  /\ start_of_sampling \in {None} \cup { Some(t) : t \in StartTimes }
  /\ constructed = FALSE
  /\ interval = 0
  /\ op = "none"
  /\ interval_arg = None
  /\ to_sort = TRUE
  /\ raised = "none"
  /\ returned = NoReturn

\* DataSampler.__init__(self, interval), the body
init_body(given) ==
  /\ ~constructed
  /\ IF given = None \/ given[1] <= 0
     THEN /\ raised' = "ValueError"
          /\ UNCHANGED <<constructed, interval>>
     ELSE /\ raised' = "none"
          /\ constructed' = TRUE
          /\ interval' = given[1]
  /\ interval_arg' = given
  /\ to_sort' = TRUE
  /\ returned' = NoReturn
  /\ UNCHANGED <<unsampled_measurements, start_of_sampling>>

\* DataSampler(interval=arg)
DataSampler_init(arg) ==
  /\ init_body(arg)
  /\ op' = "DataSampler(interval)"

\* DataSampler(): the argument is omitted and takes its default
DataSampler_init_default ==
  /\ init_body(Some(DefaultInterval))
  /\ op' = "DataSampler()"

\* DataSampler.sample_measurements
sample_measurements(arg, sort) ==
  /\ constructed
  /\ interval' = apply_override(interval, arg)
  /\ returned' = ReturnList(sample_flat(unsampled_measurements, start_of_sampling,
                                        interval', sort))
  /\ raised' = "none"
  /\ op' = "sample_measurements"
  /\ interval_arg' = arg
  /\ to_sort' = sort
  /\ UNCHANGED <<unsampled_measurements, start_of_sampling, constructed>>

\* DataSampler.sample_measurements_by_type
sample_measurements_by_type(arg) ==
  /\ constructed
  /\ interval' = apply_override(interval, arg)
  /\ returned' = ReturnDict(sample_by_type(unsampled_measurements, start_of_sampling,
                                           interval'))
  /\ raised' = "none"
  /\ op' = "sample_measurements_by_type"
  /\ interval_arg' = arg
  /\ to_sort' = TRUE
  /\ UNCHANGED <<unsampled_measurements, start_of_sampling, constructed>>

Next ==
  \/ \E arg \in IntervalArgs : DataSampler_init(arg)
  \/ DataSampler_init_default
  \/ \E arg \in IntervalArgs, sort \in BOOLEAN : sample_measurements(arg, sort)
  \/ \E arg \in IntervalArgs : sample_measurements_by_type(arg)

Spec == Init /\ [][Next]_vars

\* The same program on inputs of at most MaxLenInterval readings: the
\* specification of the properties of the configured interval.
InitInterval ==
  /\ Init
  /\ Len(unsampled_measurements) <= MaxLenInterval

SpecInterval == InitInterval /\ [][Next]_vars

\* ---------------------------------------------------------------------
\* Vocabulary of the properties
\* ---------------------------------------------------------------------
\* the last operation was one of the two sampling calls
Sampled == op \in {"sample_measurements", "sample_measurements_by_type"}

NonDecreasing(points) ==
  \A i \in 1..(Len(points) - 1) :
    points[i].measurement_time <= points[i + 1].measurement_time

\* the points of channel c in what the last call returned, in their order
PointsOf(c) ==
  IF returned.kind = "list" THEN group_of(returned.list, c)
  ELSE IF returned.kind = "dict" /\ c \in DOMAIN returned.dict THEN returned.dict[c]
  ELSE << >>

\* the readings the call retains (sorted, not before start_of_sampling)
Retained == sort_and_filter_measurements(unsampled_measurements, start_of_sampling)
RetainedOf(c) == group_of(Retained, c)

\* the input without the readings of channel d
Without(measurements, d) ==
  LET NotD(m) == m.measurement_type # d
  IN  SelectSeq(measurements, NotD)

\* what a call with this input returns for channel c
ChannelResult(measurements, c) ==
  LET d == sample_by_type(measurements, start_of_sampling, interval)
  IN  IF c \in DOMAIN d THEN d[c] ELSE << >>

\* ---------------------------------------------------------------------
\* C1: the flat sequence returned by sample_measurements with to_sort true
\* is sorted by time: consecutive points have non-decreasing timestamps,
\* across all channels.
\* ---------------------------------------------------------------------
C1_FlatOutputSorted ==
  (op = "sample_measurements" /\ to_sort) => NonDecreasing(returned.list)

\* ---------------------------------------------------------------------
\* C2: channels are resampled independently: the points returned for a
\* channel c are the same whether or not the readings of another channel d
\* are in the input.
\* ---------------------------------------------------------------------
C2_ChannelsIndependent ==
  Sampled =>
    \A c \in MeasType : \A d \in MeasType \ {c} :
      PointsOf(c) = ChannelResult(Without(unsampled_measurements, d), c)

\* ---------------------------------------------------------------------
\* C3: a sampling call whose interval override is zero or negative raises
\* a configuration error and returns nothing.
\* ---------------------------------------------------------------------
C3_BadOverrideRaises ==
  (Sampled /\ interval_arg # None /\ interval_arg[1] <= 0)
    => (raised = "ValueError" /\ returned.kind = "none")

\* ---------------------------------------------------------------------
\* C4: the configured interval across a construction and the calls after it
\* ---------------------------------------------------------------------
Positive(arg) == arg # None /\ arg[1] > 0

\* what a sampling call that samples with interval i returns
ResultWith(i) ==
  IF op' = "sample_measurements"
  THEN ReturnList(sample_flat(unsampled_measurements, start_of_sampling, i, to_sort'))
  ELSE ReturnDict(sample_by_type(unsampled_measurements, start_of_sampling, i))

\* One step of the program: an instance has a positive interval; a call given
\* a positive interval takes it over and any other call keeps the interval it
\* found (so the interval is the latest positive one given so far), and
\* samples with that value; the constructor given zero, a negative number or
\* None raises and leaves no instance.
C4_IntervalStep ==
  /\ constructed' => interval' > 0
  /\ ~constructed' => interval' = 0
  /\ Sampled' =>
       /\ constructed /\ constructed'
       /\ interval' = (IF Positive(interval_arg') THEN interval_arg'[1] ELSE interval)
       /\ raised' = "none"
       /\ returned' = ResultWith(IF Positive(interval_arg')
                                 THEN interval_arg'[1] ELSE interval)
  /\ op' = "DataSampler(interval)" =>
       IF Positive(interval_arg')
       THEN constructed' /\ interval' = interval_arg'[1] /\ raised' = "none"
       ELSE ~constructed' /\ raised' = "ValueError"

\* C4 as stated: besides the above, a construction without the interval
\* argument raises an error and yields no instance.
C4_AbsentIntervalRaises ==
  [][C4_IntervalStep
     /\ (op' = "DataSampler()" => (~constructed' /\ raised' = "ValueError"))]_vars

\* C4 as amended: the configured interval of an instance is strictly positive
\* and equals the latest positive interval given to the constructor or to a
\* call so far; a call without an override samples with that value; the
\* constructor given zero, a negative number or None raises and yields no
\* instance, and the constructor called without the argument yields an
\* instance with the default interval of 5 minutes.
C4_IntervalPersists ==
  [][C4_IntervalStep
     /\ (op' = "DataSampler()" =>
           (constructed' /\ interval' = DefaultInterval /\ raised' = "none"))]_vars

\* a call without an override has sampled, with an interval that an earlier
\* call or the constructor set and that is not the default
C4_Witness ==
  /\ Sampled
  /\ interval_arg = None
  /\ interval \in PositiveIntervals \ {DefaultInterval}
  /\ returned.kind = "list"
  /\ returned.list # << >>

\* ---------------------------------------------------------------------
\* Vocabulary of the walk
\* ---------------------------------------------------------------------
\* the grid the call tests exact hits against
Grid == generate_intervals(Retained, start_of_sampling, interval)

Step == timedelta(interval)

\* the interval start of the first retained reading of channel c
WalkStart(c) == get_interval_start(RetainedOf(c)[1].measurement_time, interval)

\* t is WalkStart(c) plus a positive whole number of intervals
IsWalkBoundary(c, t) ==
  /\ RetainedOf(c) # << >>
  /\ t > WalkStart(c)
  /\ (t - WalkStart(c)) % Step = 0

\* the first walk boundary of channel c at or after t
FirstWalkBoundaryFrom(c, t) ==
  LET first == WalkStart(c) + Step
  IN  IF t <= first THEN first
      ELSE first + ((t - first + Step - 1) \div Step) * Step

\* the grid of channel c on its own: start_of_sampling when given, else the
\* interval start of the channel's first retained reading, plus whole
\* numbers of intervals
OnChannelGrid(c, t) ==
  LET from == IF start_of_sampling # None THEN start_of_sampling[1] ELSE WalkStart(c)
  IN  t >= from /\ (t - from) % Step = 0

\* positions of the retained readings of c that the call treats as exact hits
ExactHitReadings(c) ==
  { j \in 1..Len(RetainedOf(c)) : RetainedOf(c)[j].measurement_time \in Grid }

\* p stands at the timestamp of an exact-hit reading of c
IsExactHitPoint(c, p) ==
  \E j \in ExactHitReadings(c) :
    RetainedOf(c)[j].measurement_time = p.measurement_time

\* positions of the points of c that are not exact hits
CarriedPoints(c) ==
  { n \in 1..Len(PointsOf(c)) : ~IsExactHitPoint(c, PointsOf(c)[n]) }

\* ---------------------------------------------------------------------
\* C5: every retained reading whose timestamp lies on its channel's grid
\* yields an output point with that reading's timestamp, channel and value.
\* ---------------------------------------------------------------------
C5_ExactHitRule ==
  Sampled =>
    \A c \in MeasType : \A j \in 1..Len(RetainedOf(c)) :
      LET r == RetainedOf(c)[j]
      IN  OnChannelGrid(c, r.measurement_time) =>
            \E n \in 1..Len(PointsOf(c)) :
              PointsOf(c)[n] = Measurement(r.measurement_time, c, r.value)

\* ---------------------------------------------------------------------
\* C6: every point that is not an exact hit stands at a walk boundary B and
\* carries the value of the last reading of its channel, in sorted order,
\* with timestamp <= B; that reading lies in [B - interval, B].  (The points
\* at exact-hit timestamps are exactly one per exact-hit reading, so the
\* other points are the carried ones.)
\* ---------------------------------------------------------------------
C6_CarriedValueIsLatest ==
  Sampled =>
    \A c \in MeasType :
      /\ Len(PointsOf(c)) - Cardinality(CarriedPoints(c))
           = Cardinality(ExactHitReadings(c))
      /\ \A n \in CarriedPoints(c) :
           LET p == PointsOf(c)[n]
               B == p.measurement_time
               upTo == { j \in 1..Len(RetainedOf(c)) :
                           RetainedOf(c)[j].measurement_time <= B }
           IN  /\ IsWalkBoundary(c, B)
               /\ upTo # {}
               /\ LET last == CHOOSE j \in upTo : \A i \in upTo : i <= j
                      r == RetainedOf(c)[last]
                  IN  /\ p.value = r.value
                      /\ B - Step <= r.measurement_time

\* two readings of one channel in one interval, with different values, and
\* the only point is the carried value of the later one
C6_Witness ==
  /\ Sampled
  /\ \E c \in MeasType :
       /\ Len(RetainedOf(c)) = 2
       /\ ExactHitReadings(c) = {}
       /\ RetainedOf(c)[1].value # RetainedOf(c)[2].value
       /\ RetainedOf(c)[1].measurement_time < RetainedOf(c)[2].measurement_time
       /\ Len(PointsOf(c)) = 1
       /\ PointsOf(c)[1].value = RetainedOf(c)[2].value
       /\ PointsOf(c)[1].measurement_time > RetainedOf(c)[2].measurement_time

\* ---------------------------------------------------------------------
\* C7: for consecutive readings r1 < r2 of one channel, among the points
\* with timestamp in [r1, r2) at most one is a carried point; it stands at
\* the first walk boundary at or after r1 and carries r1's value; and no
\* point stands after that boundary and before r2.
\* ---------------------------------------------------------------------
C7_CappedCarryForward ==
  Sampled =>
    \A c \in MeasType : \A j \in 1..(Len(RetainedOf(c)) - 1) :
      LET r1 == RetainedOf(c)[j]
          r2 == RetainedOf(c)[j + 1]
          W  == FirstWalkBoundaryFrom(c, r1.measurement_time)
          between == { n \in 1..Len(PointsOf(c)) :
                         /\ r1.measurement_time <= PointsOf(c)[n].measurement_time
                         /\ PointsOf(c)[n].measurement_time < r2.measurement_time }
          carried == between \cap CarriedPoints(c)
      IN  r1.measurement_time < r2.measurement_time =>
            /\ Cardinality(carried) <= 1
            /\ \A n \in carried :
                 /\ PointsOf(c)[n].measurement_time = W
                 /\ PointsOf(c)[n].value = r1.value
            /\ \A n \in between : PointsOf(c)[n].measurement_time <= W

\* two readings of one channel with at least two walk boundaries between
\* them; the first reading is carried to the first of them, once
C7_Witness ==
  /\ Sampled
  /\ \E c \in MeasType :
       /\ Len(RetainedOf(c)) = 2
       /\ LET r1 == RetainedOf(c)[1]
              r2 == RetainedOf(c)[2]
              W  == FirstWalkBoundaryFrom(c, r1.measurement_time)
          IN  /\ W + Step < r2.measurement_time
              /\ r1.value # r2.value
              /\ 1 \in CarriedPoints(c)
              /\ PointsOf(c)[1] = Measurement(W, c, r1.value)
              /\ Len(PointsOf(c)) = 2

\* ---------------------------------------------------------------------
\* C8: no two points of one call have the same channel and the same
\* timestamp.
\* ---------------------------------------------------------------------
C8_OnePointPerTimestamp ==
  Sampled =>
    \A c \in MeasType : \A m, n \in 1..Len(PointsOf(c)) :
      m # n => PointsOf(c)[m].measurement_time # PointsOf(c)[n].measurement_time

\* ---------------------------------------------------------------------
\* C9: every list returned by sample_measurements_by_type is non-decreasing
\* in timestamp.
\* ---------------------------------------------------------------------
C9_ByTypeNonDecreasing ==
  op = "sample_measurements_by_type" =>
    \A c \in DOMAIN returned.dict : NonDecreasing(returned.dict[c])

\* a channel's list that holds an exact hit and a carried point
C9_Witness ==
  /\ op = "sample_measurements_by_type"
  /\ \E c \in DOMAIN returned.dict :
       /\ Len(returned.dict[c]) = 2
       /\ Cardinality(CarriedPoints(c)) = 1
       /\ returned.dict[c][1].measurement_time < returned.dict[c][2].measurement_time

\* ---------------------------------------------------------------------
\* C10: every emitted timestamp is the interval start of the first retained
\* reading of the point's channel plus a positive whole number of intervals,
\* or the timestamp of an input reading of that channel.
\* ---------------------------------------------------------------------
IsReadingTime(c, t) ==
  \E j \in 1..Len(unsampled_measurements) :
    /\ unsampled_measurements[j].measurement_type = c
    /\ unsampled_measurements[j].measurement_time = t

C10_EmittedTimestamps ==
  Sampled =>
    \A c \in MeasType : \A n \in 1..Len(PointsOf(c)) :
      \/ IsWalkBoundary(c, PointsOf(c)[n].measurement_time)
      \/ IsReadingTime(c, PointsOf(c)[n].measurement_time)

\* a channel with a point at a walk boundary where it has no reading and a
\* point at a reading's timestamp that is no walk boundary
C10_Witness ==
  /\ Sampled
  /\ \E c \in MeasType :
       /\ \E n \in 1..Len(PointsOf(c)) :
            /\ IsWalkBoundary(c, PointsOf(c)[n].measurement_time)
            /\ ~IsReadingTime(c, PointsOf(c)[n].measurement_time)
       /\ \E n \in 1..Len(PointsOf(c)) :
            /\ ~IsWalkBoundary(c, PointsOf(c)[n].measurement_time)
            /\ IsReadingTime(c, PointsOf(c)[n].measurement_time)

\* ---------------------------------------------------------------------
\* C11: resampling the output of sample_measurements, with no start time
\* and at the same interval, returns the same set of points.
\* ---------------------------------------------------------------------
PointSet(points) == { points[n] : n \in 1..Len(points) }

\* the flat output of the last call, handed to sample_measurements again
Resampled == sample_flat(returned.list, None, interval, TRUE)

\* C11 as stated, for any positive interval
C11_ResampleReproduces ==
  (op = "sample_measurements" /\ start_of_sampling = None)
    => PointSet(Resampled) = PointSet(returned.list)

\* C11 as amended: for any input and any positive interval that divides
\* the 60 minutes of an hour, with no start time, feeding the points
\* returned by sample_measurements back into sample_measurements at the same
\* interval returns the same set of points.
C11_ResampleReproducesAligned ==
  (op = "sample_measurements" /\ start_of_sampling = None
     /\ MinutesPerHour % interval = 0)
    => PointSet(Resampled) = PointSet(returned.list)

\* a call with an interval that divides 60 whose output holds a carried
\* point, so that the output differs from the input it is resampled from
C11_Witness ==
  /\ op = "sample_measurements"
  /\ start_of_sampling = None
  /\ MinutesPerHour % interval = 0
  /\ returned.list # << >>
  /\ \E c \in MeasType : CarriedPoints(c) # {}
  /\ PointSet(returned.list) # PointSet(unsampled_measurements)
  /\ PointSet(Resampled) = PointSet(returned.list)

\* ---------------------------------------------------------------------
\* C12: with a start time S the call returns what it returns for the
\* readings with timestamp >= S alone, a reading at exactly S is retained
\* (and, S being the first grid instant, emitted at S with its value); with
\* no start time no reading is filtered.
\* ---------------------------------------------------------------------
\* the readings of the input that are not before S, in input order
NotBefore(measurements, S) ==
  LET FromS(m) == m.measurement_time >= S
  IN  SelectSeq(measurements, FromS)

\* what the last call returns when handed these measurements instead
ResultOn(measurements) ==
  IF op = "sample_measurements"
  THEN ReturnList(sample_flat(measurements, start_of_sampling, interval, to_sort))
  ELSE ReturnDict(sample_by_type(measurements, start_of_sampling, interval))

C12_StartTimeInclusive ==
  Sampled =>
    IF start_of_sampling # None
    THEN LET S == start_of_sampling[1]
         IN  /\ returned = ResultOn(NotBefore(unsampled_measurements, S))
             /\ \A j \in 1..Len(Retained) : Retained[j].measurement_time >= S
             /\ \A j \in 1..Len(unsampled_measurements) :
                  LET m == unsampled_measurements[j]
                  IN  m.measurement_time = S =>
                        /\ \E i \in 1..Len(Retained) : Retained[i] = m
                        /\ \E n \in 1..Len(PointsOf(m.measurement_type)) :
                             PointsOf(m.measurement_type)[n] = m
    ELSE /\ Len(Retained) = Len(unsampled_measurements)
         /\ PointSet(Retained) = PointSet(unsampled_measurements)

\* a call with a start time S, a reading before S and a reading at S: only
\* the reading at S is emitted
C12_Witness ==
  /\ Sampled
  /\ start_of_sampling # None
  /\ Len(unsampled_measurements) = 2
  /\ \E j \in 1..2 : unsampled_measurements[j].measurement_time < start_of_sampling[1]
  /\ \E j \in 1..2 :
       /\ unsampled_measurements[j].measurement_time = start_of_sampling[1]
       /\ returned.kind = "list"
       /\ returned.list = <<unsampled_measurements[j]>>

\* ---------------------------------------------------------------------
\* C13: for an input in which no two readings of one channel share a
\* timestamp, every permutation of the input gives the same list per
\* channel, and the same set of points in the flat output.
\* ---------------------------------------------------------------------
Permutations(s) ==
  LET n == Len(s)
      bijections == { f \in [1..n -> 1..n] : \A a, b \in 1..n : a # b => f[a] # f[b] }
  IN  { [i \in 1..n |-> s[f[i]]] : f \in bijections }

NoSharedTimestamp(s) ==
  \A a, b \in 1..Len(s) :
    (a # b /\ s[a].measurement_type = s[b].measurement_type)
      => s[a].measurement_time # s[b].measurement_time

AllPoints == UNION { PointSet(PointsOf(c)) : c \in MeasType }

C13_OrderIndependent ==
  (Sampled /\ NoSharedTimestamp(unsampled_measurements)) =>
    \A q \in Permutations(unsampled_measurements) :
      /\ \A c \in MeasType : ChannelResult(q, c) = PointsOf(c)
      /\ PointSet(sample_flat(q, start_of_sampling, interval, to_sort)) = AllPoints

\* two readings of one channel handed over latest first, and sampled
C13_Witness ==
  /\ Sampled
  /\ Len(unsampled_measurements) = 2
  /\ unsampled_measurements[1].measurement_type = unsampled_measurements[2].measurement_type
  /\ unsampled_measurements[1].measurement_time > unsampled_measurements[2].measurement_time
  /\ Len(Retained) = 2
  /\ Len(PointsOf(unsampled_measurements[1].measurement_type)) = 2

\* ---------------------------------------------------------------------
\* C14: the timestamps emitted by a call with a start time S
\* ---------------------------------------------------------------------
\* t is S plus a whole number (>= 0) of intervals
OnStartGrid(t) ==
  /\ start_of_sampling # None
  /\ t >= start_of_sampling[1]
  /\ (t - start_of_sampling[1]) % Step = 0

\* C14 as stated: every emitted timestamp, of an exact hit or of a carried
\* point, is S plus a whole number of intervals.
C14_AllPointsOnStartGrid ==
  (Sampled /\ start_of_sampling # None) =>
    \A c \in MeasType : \A n \in 1..Len(PointsOf(c)) :
      OnStartGrid(PointsOf(c)[n].measurement_time)

\* C14 as amended: when a start time S is supplied, the exact-hit grid is
\* anchored at S: every exact-hit point stands at S plus a whole number
\* (>= 0) of intervals, also when S is not aligned to a multiple of the
\* interval within the hour; a carried-forward point stands at the interval
\* start of its channel's first retained reading plus a positive whole number
\* of intervals, which need not be an instant of the grid anchored at S.
C14_ExactHitsOnStartGrid ==
  (Sampled /\ start_of_sampling # None) =>
    \A c \in MeasType : \A n \in 1..Len(PointsOf(c)) :
      IF IsExactHitPoint(c, PointsOf(c)[n])
      THEN OnStartGrid(PointsOf(c)[n].measurement_time)
      ELSE IsWalkBoundary(c, PointsOf(c)[n].measurement_time)

\* a start time with a non-zero second, and a channel with an exact hit on
\* the grid anchored there and a carried point off that grid
C14_Witness ==
  /\ Sampled
  /\ start_of_sampling # None
  /\ start_of_sampling[1] % SecondsPerMinute # 0
  /\ \E c \in MeasType :
       /\ \E n \in 1..Len(PointsOf(c)) :
            /\ IsExactHitPoint(c, PointsOf(c)[n])
            /\ OnStartGrid(PointsOf(c)[n].measurement_time)
       /\ \E n \in CarriedPoints(c) :
            ~OnStartGrid(PointsOf(c)[n].measurement_time)

\* ---------------------------------------------------------------------
\* C15: last-observation-carry-forward coverage
\* ---------------------------------------------------------------------
\* the walk boundaries of channel c up to one interval past its last reading
WalkBoundaries(c) ==
  IF RetainedOf(c) = << >> THEN {}
  ELSE LET last == RetainedOf(c)[Len(RetainedOf(c))].measurement_time
       IN  { WalkStart(c) + k * Step :
               k \in 1..(((last - WalkStart(c)) \div Step) + 1) }

\* positions of the retained readings of c strictly before t
ReadingsBefore(c, t) ==
  { j \in 1..Len(RetainedOf(c)) : RetainedOf(c)[j].measurement_time < t }

\* C15: for every channel and every walk boundary B such that the channel
\* has a reading strictly inside (B - interval, B) and no reading exactly at
\* B, the output has a point at B carrying the value of the channel's latest
\* reading before B, whatever readings follow after B.
C15_CarryForwardCoverage ==
  Sampled =>
    \A c \in MeasType : \A B \in WalkBoundaries(c) :
      ( /\ \E j \in ReadingsBefore(c, B) :
             RetainedOf(c)[j].measurement_time > B - Step
        /\ \A j \in 1..Len(RetainedOf(c)) :
             RetainedOf(c)[j].measurement_time # B )
      => \E n \in 1..Len(PointsOf(c)) :
           PointsOf(c)[n] =
             Measurement(B, c,
                         RetainedOf(c)[Cardinality(ReadingsBefore(c, B))].value)

\* ---------------------------------------------------------------------
\* C16: the latest reading of a channel is never lost
\* ---------------------------------------------------------------------
\* C16: no sampling call raises; a channel with at least one retained
\* reading has at least one point, and its last point carries the value of
\* the channel's last retained reading (in stable time-sorted order) at a
\* timestamp >= that reading's timestamp; a channel with no retained
\* reading has no point, so an empty input yields an empty result.
C16_LatestReadingKept ==
  Sampled =>
    /\ raised = "none"
    /\ \A c \in MeasType :
         IF RetainedOf(c) = << >>
         THEN PointsOf(c) = << >>
         ELSE LET r == RetainedOf(c)[Len(RetainedOf(c))]
              IN  /\ Len(PointsOf(c)) >= 1
                  /\ PointsOf(c)[Len(PointsOf(c))].value = r.value
                  /\ PointsOf(c)[Len(PointsOf(c))].measurement_time
                       >= r.measurement_time
    /\ unsampled_measurements = << >> =>
         returned \in {ReturnList(<< >>), ReturnDict(<< >>)}

\* one channel loses every reading to the start time and has no point, and
\* another channel's last reading is carried to a later timestamp after an
\* earlier reading of it with another value
C16_Witness ==
  /\ Sampled
  /\ \E c \in MeasType :
       /\ group_of(unsampled_measurements, c) # << >>
       /\ RetainedOf(c) = << >>
       /\ PointsOf(c) = << >>
  /\ \E c \in MeasType :
       /\ RetainedOf(c) # << >>
       /\ LET r == RetainedOf(c)[Len(RetainedOf(c))]
              p == PointsOf(c)[Len(PointsOf(c))]
          IN  p.value = r.value /\ p.measurement_time > r.measurement_time

\* a channel with two readings of different values in one interval, whose
\* single point carries the later value
C16_WitnessLatest ==
  /\ Sampled
  /\ \E c \in MeasType :
       /\ Len(RetainedOf(c)) = 2
       /\ RetainedOf(c)[1].value # RetainedOf(c)[2].value
       /\ Len(PointsOf(c)) = 1
       /\ PointsOf(c)[1].value = RetainedOf(c)[2].value
       /\ PointsOf(c)[1].measurement_time > RetainedOf(c)[2].measurement_time

====
